---- MODULE Spec2Model ----
(***************************************************************************)
(* A model of helper.py: the pretrained-model fetcher                      *)
(* (maybe_download_pretrained_vgg), the training batch generator           *)
(* (gen_batch_function / get_batches_fn), the inference renderer           *)
(* (gen_test_output) and the run persister (save_inference_samples).       *)
(*                                                                         *)
(* Four specifications share the variables:                                *)
(*   Spec       one process calling the fetcher repeatedly, with network   *)
(*              and archive faults;                                        *)
(*   SpecConc   two processes, one call each, reliable network;            *)
(*   SpecData   the batch generator, the renderer's slice and the run      *)
(*              persister over one directory listing;                      *)
(*   SpecPixels the per-pixel arithmetic of the label remapping and of     *)
(*              the raw mask.                                              *)
(***************************************************************************)
EXTENDS Integers, Sequences, FiniteSets

VARIABLES
    \* ---- the fetcher: the directory <data_dir>/vgg and the callers ----
    dirExists,   \* os.path.exists(vgg_path)
    present,     \* the files that exist under vgg_path
    pc,          \* pc[p]: where process p is inside maybe_download_pretrained_vgg
    budget,      \* budget[p]: calls process p may still start
    attempts,    \* attempts[p]: urlretrieve calls made by p's current call
    pre,         \* pre[p]: the files under vgg_path when p's current call began
    written,     \* written[p]: the files p's current call has written
    interfered,  \* interfered[p]: another process changed vgg_path during p's call
    complete,    \* complete[p]: the three model files existed when p's call returned
    \* ---- the dataset: listing, batch generator, renderer, persister ----
    image_paths, \* glob(<data_folder>/CameraRGB/*.png), as a sequence of names
    label_paths, \* glob(<data_folder>/CameraPrep/*.png)
    batch_size,  \* the argument of get_batches_fn
    shuffle,     \* the permutation random.shuffle applies
    gpc,         \* position of the get_batches_fn generator
    paths,       \* its local `paths`
    batch_i,     \* its loop variable
    batches,     \* the batches it has yielded, in order
    rpc,         \* position of save_inference_samples
    todo,        \* the image files gen_test_output still has to render
    yielded,     \* the names gen_test_output has yielded, in order
    outdir,      \* the files in the run output directory
    \* ---- one label image and one softmax output ----
    xpc,         \* position of the pixel computation
    gt_file,     \* the label image as cv2.imread returns it (BGR pixels)
    im_softmax,  \* the class scores of each pixel
    gt_image,    \* the label channel, then the remapped mask
    result,      \* the arg-max class of each pixel
    raw_im       \* the raw mask

fetchVars == <<dirExists, present, pc, budget, attempts, pre, written,
               interfered, complete>>
dataVars  == <<image_paths, label_paths, batch_size, shuffle, gpc, paths,
               batch_i, batches, rpc, todo, yielded, outdir>>
pixVars   == <<xpc, gt_file, im_softmax, gt_image, result, raw_im>>
vars      == <<fetchVars, dataVars, pixVars>>

(***************************************************************************)
(* Bounds of the model.                                                    *)
(***************************************************************************)
MaxCalls == 3      \* calls of the fetcher the single process makes
MaxImages == 13    \* files in CameraRGB
MaxLabels == 13    \* files in CameraPrep
MaxBatchSize == 11 \* the largest batch_size asked for
NumPixels == 2     \* pixels of an image
NumClasses == 3    \* classes the network scores for each pixel

\* The module constant LIMIT.
LIMIT == 10

Procs == {1, 2}

(***************************************************************************)
(* The fetcher's names.                                                    *)
(***************************************************************************)
vgg_filename == "vgg.zip"

vgg_files == {"variables/variables.data-00000-of-00001",
              "variables/variables.index",
              "saved_model.pb"}

\* An unrelated file a caller may have left under vgg_path.
SiblingFile == "sibling.txt"

VggDirNames == vgg_files \cup {vgg_filename, SiblingFile}

\* The members of the archive the fixed URL serves (paths under vgg/): the
\* three model files the function looks for after extractall(data_dir).
ArchiveMembers == vgg_files

(***************************************************************************)
(* maybe_download_pretrained_vgg, one action per statement that reads or   *)
(* changes the directory.  Each is taken as atomic: the three existence    *)
(* tests of line 39 together, rmtree as a whole, extractall as a whole.    *)
(***************************************************************************)
Running(q) == pc[q] \notin {"idle", "done", "failed"}

\* History only: process p changed vgg_path while the others were mid-call.
Interfere(p) ==
    [q \in Procs |-> IF q # p /\ Running(q) THEN TRUE ELSE interfered[q]]

\* missing_vgg_files: the model files that do not exist (line 39).
MissingAlways(files) == vgg_files
MissingVggFiles(files) == vgg_files \ files

\* The branch "if os.path.exists(vgg_path): shutil.rmtree(vgg_path)" followed
\* by os.makedirs(vgg_path) (lines 42-44): where the call goes next.
RepairInPlace(exists) == IF exists THEN "download" ELSE "makedirs"
CleanVggDir(exists) == IF exists THEN "rmtree" ELSE "makedirs"

\* shutil.rmtree(vgg_path): whether the directory is still there afterwards.
RmtreeKeepsDir(exists) == exists
DirAfterRmtree(exists) == FALSE

\* zip_ref.extractall(data_dir): the files under vgg_path afterwards.
AfterExtractall(files) == files \cup ArchiveMembers

\* os.remove(os.path.join(vgg_path, vgg_filename)).
KeepZip(files) == files
AfterRemove(files) == files \ {vgg_filename}

\* The fetcher touches nothing of the dataset.
FetchFrame == UNCHANGED <<dataVars, pixVars>>

\* A caller enters the function.
Call(p) ==
    /\ pc[p] \in {"idle", "done", "failed"}
    /\ FetchFrame
    /\ budget[p] > 0
    /\ budget' = [budget EXCEPT ![p] = @ - 1]
    /\ pc' = [pc EXCEPT ![p] = "check"]
    /\ attempts' = [attempts EXCEPT ![p] = 0]
    /\ pre' = [pre EXCEPT ![p] = present]
    /\ written' = [written EXCEPT ![p] = {}]
    /\ interfered' = [interfered EXCEPT ![p] = FALSE]
    /\ complete' = [complete EXCEPT ![p] = FALSE]
    /\ UNCHANGED <<dirExists, present>>

\* Lines 39-40: the existence test of the three model files.
Check(p) ==
    /\ pc[p] = "check"
    /\ FetchFrame
    /\ IF MissingVggFiles(present) # {}
         THEN /\ pc' = [pc EXCEPT ![p] = "exists"]
              /\ UNCHANGED complete
         ELSE /\ pc' = [pc EXCEPT ![p] = "done"]
              /\ complete' = [complete EXCEPT ![p] = TRUE]
    /\ UNCHANGED <<dirExists, present, budget, attempts, pre, written, interfered>>

\* Line 42: os.path.exists(vgg_path).
ExistsVggPath(p) ==
    /\ pc[p] = "exists"
    /\ FetchFrame
    /\ pc' = [pc EXCEPT ![p] = CleanVggDir(dirExists)]
    /\ UNCHANGED <<dirExists, present, budget, attempts, pre, written,
                   interfered, complete>>

\* Line 43: shutil.rmtree(vgg_path); FileNotFoundError when it is gone.
Rmtree(p) ==
    /\ pc[p] = "rmtree"
    /\ FetchFrame
    /\ IF dirExists
         THEN /\ dirExists' = DirAfterRmtree(dirExists)
              /\ present' = {}
              /\ interfered' = Interfere(p)
              /\ pc' = [pc EXCEPT ![p] = "makedirs"]
         ELSE /\ pc' = [pc EXCEPT ![p] = "failed"]
              /\ UNCHANGED <<dirExists, present, interfered>>
    /\ UNCHANGED <<budget, attempts, pre, written, complete>>

\* Line 44: os.makedirs(vgg_path); FileExistsError when it is there.
Makedirs(p) ==
    /\ pc[p] = "makedirs"
    /\ FetchFrame
    /\ IF dirExists
         THEN /\ pc' = [pc EXCEPT ![p] = "failed"]
              /\ UNCHANGED <<dirExists, interfered>>
         ELSE /\ dirExists' = TRUE
              /\ interfered' = Interfere(p)
              /\ pc' = [pc EXCEPT ![p] = "download"]
    /\ UNCHANGED <<present, budget, attempts, pre, written, complete>>

\* Lines 48-52: urlretrieve succeeds.  It opens the URL first and the target
\* file second: with the directory gone the request is made and open() raises.
Urlretrieve(p) ==
    /\ pc[p] = "download"
    /\ FetchFrame
    /\ attempts' = [attempts EXCEPT ![p] = @ + 1]
    /\ IF dirExists
         THEN /\ present' = present \cup {vgg_filename}
              /\ written' = [written EXCEPT ![p] = @ \cup {vgg_filename}]
              /\ interfered' = Interfere(p)
              /\ pc' = [pc EXCEPT ![p] = "open"]
         ELSE /\ pc' = [pc EXCEPT ![p] = "failed"]
              /\ UNCHANGED <<present, written, interfered>>
    /\ UNCHANGED <<dirExists, budget, pre, complete>>

\* Lines 48-52: urlretrieve raises (network failure); the target file may
\* have been created and partly written, or not.
UrlretrieveFails(p) ==
    /\ pc[p] = "download"
    /\ FetchFrame
    /\ attempts' = [attempts EXCEPT ![p] = @ + 1]
    /\ \E partial \in BOOLEAN :
         IF partial /\ dirExists
           THEN /\ present' = present \cup {vgg_filename}
                /\ written' = [written EXCEPT ![p] = @ \cup {vgg_filename}]
           ELSE UNCHANGED <<present, written>>
    /\ pc' = [pc EXCEPT ![p] = "failed"]
    /\ UNCHANGED <<dirExists, budget, pre, interfered, complete>>

\* Line 56: zipfile.ZipFile(path, 'r'); FileNotFoundError when it is gone.
OpenZip(p) ==
    /\ pc[p] = "open"
    /\ FetchFrame
    /\ pc' = [pc EXCEPT ![p] =
                 IF vgg_filename \in present THEN "extract" ELSE "failed"]
    /\ UNCHANGED <<dirExists, present, budget, attempts, pre, written,
                   interfered, complete>>

\* Line 56: the downloaded file is no ZIP archive (BadZipFile).
OpenZipFails(p) ==
    /\ pc[p] = "open"
    /\ FetchFrame
    /\ vgg_filename \in present
    /\ pc' = [pc EXCEPT ![p] = "failed"]
    /\ UNCHANGED <<dirExists, present, budget, attempts, pre, written,
                   interfered, complete>>

\* Lines 57-58: extractall writes every member under data_dir, creating the
\* directories it needs.  The archive is open: removing its name meanwhile
\* does not stop the extraction.
Extractall(p) ==
    /\ pc[p] = "extract"
    /\ FetchFrame
    /\ dirExists' = TRUE
    /\ present' = AfterExtractall(present)
    /\ written' = [written EXCEPT ![p] = @ \cup ArchiveMembers]
    /\ interfered' = Interfere(p)
    /\ pc' = [pc EXCEPT ![p] = "remove"]
    /\ UNCHANGED <<budget, attempts, pre, complete>>

\* Line 57: extractall raises part-way (a bad CRC, a full disk).  The members
\* handled before the bad one are on disk, and so is the bad one: its target
\* is created before its data is read.  The archive's member order is not
\* the code's to choose, so any set of members may have been created.
ExtractallFails(p) ==
    /\ pc[p] = "extract"
    /\ FetchFrame
    /\ \E done \in SUBSET ArchiveMembers :
         /\ present' = present \cup done
         /\ written' = [written EXCEPT ![p] = @ \cup done]
         /\ dirExists' = (dirExists \/ done # {})
    /\ pc' = [pc EXCEPT ![p] = "failed"]
    /\ UNCHANGED <<budget, attempts, pre, interfered, complete>>

\* Line 61: os.remove of the archive; FileNotFoundError when it is gone.
RemoveZip(p) ==
    /\ pc[p] = "remove"
    /\ FetchFrame
    /\ IF vgg_filename \in present
         THEN /\ present' = AfterRemove(present)
              /\ interfered' = Interfere(p)
              /\ pc' = [pc EXCEPT ![p] = "done"]
              /\ complete' = [complete EXCEPT ![p] = vgg_files \subseteq present']
         ELSE /\ pc' = [pc EXCEPT ![p] = "failed"]
              /\ UNCHANGED <<present, interfered, complete>>
    /\ UNCHANGED <<dirExists, budget, attempts, pre, written>>

\* The states the directory can be in when the program starts.
InitDir ==
    /\ dirExists \in BOOLEAN
    /\ present \in SUBSET VggDirNames
    /\ present # {} => dirExists

InitCallers(calls) ==
    /\ pc = [p \in Procs |-> "idle"]
    /\ budget = calls
    /\ attempts = [p \in Procs |-> 0]
    /\ pre = [p \in Procs |-> {}]
    /\ written = [p \in Procs |-> {}]
    /\ interfered = [p \in Procs |-> FALSE]
    /\ complete = [p \in Procs |-> FALSE]

\* The parts of the state a specification does not use.
IdleFetch ==
    /\ dirExists = FALSE
    /\ present = {}
    /\ InitCallers([p \in Procs |-> 0])

IdleData ==
    /\ image_paths = <<>>
    /\ label_paths = <<>>
    /\ batch_size = 1
    /\ shuffle = "identity"
    /\ gpc = "off"
    /\ paths = <<>>
    /\ batch_i = 0
    /\ batches = <<>>
    /\ rpc = "off"
    /\ todo = <<>>
    /\ yielded = <<>>
    /\ outdir = {}

IdlePixels ==
    /\ xpc = "off"
    /\ gt_file = <<>>
    /\ im_softmax = <<>>
    /\ gt_image = <<>>
    /\ result = <<>>
    /\ raw_im = <<>>

(***************************************************************************)
(* Spec: one process, MaxCalls calls, the network and the archive may fail.*)
(***************************************************************************)
Init ==
    /\ InitDir
    /\ InitCallers([p \in Procs |-> IF p = 1 THEN MaxCalls ELSE 0])
    /\ IdleData
    /\ IdlePixels

Next ==
    \E p \in Procs :
         \/ Call(p)
         \/ Check(p)
         \/ ExistsVggPath(p)
         \/ Rmtree(p)
         \/ Makedirs(p)
         \/ Urlretrieve(p)
         \/ UrlretrieveFails(p)
         \/ OpenZip(p)
         \/ OpenZipFails(p)
         \/ Extractall(p)
         \/ ExtractallFails(p)
         \/ RemoveZip(p)

Spec == Init /\ [][Next]_vars

(***************************************************************************)
(* SpecConc: two processes, one call each, on the same base directory.     *)
(* The network and the archive are reliable: whatever fails here fails     *)
(* because of the other process.                                           *)
(***************************************************************************)
InitConc ==
    /\ InitDir
    /\ InitCallers([p \in Procs |-> 1])
    /\ IdleData
    /\ IdlePixels

NextConc ==
    \E p \in Procs :
         \/ Call(p)
         \/ Check(p)
         \/ ExistsVggPath(p)
         \/ Rmtree(p)
         \/ Makedirs(p)
         \/ Urlretrieve(p)
         \/ OpenZip(p)
         \/ Extractall(p)
         \/ RemoveZip(p)

SpecConc == InitConc /\ [][NextConc]_vars

(***************************************************************************)
(* The fetcher's claims.                                                   *)
(***************************************************************************)

\* C1: when the three model files exist as the call begins, the call makes
\* no download and leaves the vgg directory and every file in it as it was.
C1_PresentMeansUntouched ==
    \A p \in Procs :
        (pc[p] = "done" /\ vgg_files \subseteq pre[p])
            => /\ attempts[p] = 0
               /\ written[p] = {}
               /\ present = pre[p]
               /\ dirExists

\* A call that returned with the three files, an old archive and a sibling
\* file all in place from before.
C1_Witness ==
    \E p \in Procs :
        /\ pc[p] = "done"
        /\ pre[p] = VggDirNames
        /\ present = VggDirNames

\* C2: with a model file missing, none of the files that were under vgg
\* before the call is still there when the download begins.
C2_CleanedBeforeDownload ==
    \A p \in Procs :
        pc[p] = "download" => pre[p] \cap present = {}

\* About to download, after a start with exactly one model file missing and
\* a sibling file present.
C2_Witness ==
    \E p \in Procs :
        /\ pc[p] = "download"
        /\ Cardinality(pre[p] \cap vgg_files) = 2
        /\ SiblingFile \in pre[p]
        /\ attempts[p] = 0

\* C3 as stated: whenever the call has returned normally, the three model
\* files exist and vgg/vgg.zip does not.
C3_ReturnedMeansFilesAndNoZip ==
    \A p \in Procs :
        pc[p] = "done"
            => /\ vgg_files \subseteq present
               /\ vgg_filename \notin present

\* C3 amended: whenever the call has returned normally, the three model
\* files exist; if the call downloaded the archive, vgg/vgg.zip is gone.
C3_ReturnedMeansFilesAndOwnZipGone ==
    \A p \in Procs :
        pc[p] = "done"
            => /\ vgg_files \subseteq present
               /\ attempts[p] > 0 => vgg_filename \notin present

\* A call that found an old archive and model files missing, downloaded,
\* and returned.
C3_Witness ==
    \E p \in Procs :
        /\ pc[p] = "done"
        /\ attempts[p] = 1
        /\ vgg_filename \in pre[p]
        /\ vgg_filename \in written[p]

\* C10: a call that ended with a download or extraction error made a single
\* download attempt, has destroyed what was under vgg before it, and leaves
\* a model file missing, so that the next call deletes and downloads again.
C10_FailedCallIsRefetched ==
    \A p \in Procs :
        pc[p] = "failed"
            => /\ attempts[p] = 1
               /\ \A f \in pre[p] : f \notin present \/ f \in written[p]
               /\ MissingVggFiles(present) # {}

\* C9, the part every behaviour satisfies: with a reliable network a call
\* fails, or returns while a model file is missing, only if the other
\* process changed the vgg directory during that call.  That such a call
\* exists is what C9_Witness shows reachable.
C9_FailsOnlyByRace ==
    \A p \in Procs :
        (pc[p] = "failed" \/ (pc[p] = "done" /\ ~complete[p]))
            => interfered[p]

\* One process has returned normally with a model file missing and the
\* other has failed.
C9_Witness ==
    \E p, q \in Procs :
        /\ p # q
        /\ pc[p] = "done" /\ ~complete[p]
        /\ pc[q] = "failed"

(***************************************************************************)
(* The dataset listing.  A file name is <<k, n>>: the text "raw_" k times, *)
(* then the name of file n; a path and its basename are the same thing.    *)
(***************************************************************************)
Min(a, b) == IF a < b THEN a ELSE b
Max(a, b) == IF a > b THEN a ELSE b

\* s[a:b] of Python for 0 <= a <= b: 0-based, half-open, cut to the length.
PySlice(s, a, b) == SubSeq(s, Min(a, Len(s)) + 1, Min(b, Len(s)))

\* list(zip(a, b)): as long as the shorter of the two.
Zip(a, b) == [i \in 1 .. Min(Len(a), Len(b)) |-> <<a[i], b[i]>>]

\* "raw_" + name (line 152).
RawNameForgotten(name) == name
RawName(name) == <<name[1] + 1, name[2]>>

\* random.shuffle(paths), for the permutations the model draws.
Reverse(s) == [i \in 1 .. Len(s) |-> s[Len(s) + 1 - i]]
Rotate(s) == IF s = <<>> THEN s ELSE Append(Tail(s), Head(s))
Shuffle(s, how) ==
    CASE how = "identity" -> s
      [] how = "reverse"  -> Reverse(s)
      [] how = "rotate"   -> Rotate(s)

\* list(zip(image_paths, label_paths))[:LIMIT] (line 80).
TrainingPairs(images, labels) == PySlice(Zip(images, labels), 0, LIMIT)

\* paths[batch_i:batch_i+batch_size] (line 85).
ChunkShort(ps, i, n) == PySlice(ps, i, i + n - 1)
Chunk(ps, i, n) == PySlice(ps, i, i + n)

\* glob(...)[LIMIT:LIMIT + 2] (line 110).
TestSliceEarly(images) == PySlice(images, LIMIT - 1, LIMIT + 1)
TestSlice(images) == PySlice(images, LIMIT, LIMIT + 2)

\* The dataset touches nothing of the fetcher or of the pixels.
DataFrame == UNCHANGED <<fetchVars, pixVars>>

\* get_batches_fn up to its loop (lines 77-81).
GenStart ==
    /\ gpc = "start"
    /\ DataFrame
    /\ paths' = Shuffle(TrainingPairs(image_paths, label_paths), shuffle)
    /\ batch_i' = 0
    /\ gpc' = "loop"
    /\ UNCHANGED <<image_paths, label_paths, batch_size, shuffle, batches,
                   rpc, todo, yielded, outdir>>

\* One turn of "for batch_i in range(0, len(paths), batch_size)" up to its
\* yield (lines 82-95): a batch is the images and the masks of one chunk,
\* each named by the file it was read from.
GenYield ==
    /\ gpc = "loop"
    /\ DataFrame
    /\ batch_i < Len(paths)
    /\ LET chunk == Chunk(paths, batch_i, batch_size)
       IN  batches' = Append(batches,
                [images    |-> [k \in 1 .. Len(chunk) |-> chunk[k][1]],
                 gt_images |-> [k \in 1 .. Len(chunk) |-> chunk[k][2]]])
    /\ batch_i' = batch_i + batch_size
    /\ UNCHANGED <<image_paths, label_paths, batch_size, shuffle, gpc, paths,
                   rpc, todo, yielded, outdir>>

\* The range is exhausted: the generator ends.
GenStop ==
    /\ gpc = "loop"
    /\ DataFrame
    /\ batch_i >= Len(paths)
    /\ gpc' = "done"
    /\ UNCHANGED <<image_paths, label_paths, batch_size, shuffle, paths,
                   batch_i, batches, rpc, todo, yielded, outdir>>

\* save_inference_samples up to its loop (lines 141-149): the output
\* directory is removed if it exists and made anew; gen_test_output is
\* created over its slice of the listing.
SaveStart ==
    /\ rpc = "start"
    /\ DataFrame
    /\ outdir' = {}
    /\ todo' = TestSlice(image_paths)
    /\ rpc' = "loop"
    /\ UNCHANGED <<image_paths, label_paths, batch_size, shuffle, gpc, paths,
                   batch_i, batches, yielded>>

\* One turn of the loop of lines 150-152: gen_test_output renders its next
\* image and yields it under its basename (lines 110-136), and the two
\* images are saved.
SaveNext ==
    /\ rpc = "loop"
    /\ DataFrame
    /\ todo # <<>>
    /\ LET name == Head(todo)
       IN  /\ yielded' = Append(yielded, name)
           /\ outdir' = outdir \cup {name, RawName(name)}
    /\ todo' = Tail(todo)
    /\ UNCHANGED <<image_paths, label_paths, batch_size, shuffle, gpc, paths,
                   batch_i, batches, rpc>>

\* gen_test_output is exhausted: save_inference_samples returns.
SaveDone ==
    /\ rpc = "loop"
    /\ DataFrame
    /\ todo = <<>>
    /\ rpc' = "done"
    /\ UNCHANGED <<image_paths, label_paths, batch_size, shuffle, gpc, paths,
                   batch_i, batches, todo, yielded, outdir>>

\* A file left in a directory that has the run's name already.
StaleOutput == <<0, 0>>

\* The listing of CameraRGB: n distinct names; with `twin`, the file at
\* offset LIMIT + 1 is named "raw_" + the name of the file at offset LIMIT.
Listing(n, twin) ==
    [i \in 1 .. n |-> IF twin /\ i = LIMIT + 2 THEN <<1, LIMIT + 1>> ELSE <<0, i>>]

InitData ==
    /\ \E n \in 0 .. MaxImages, twin \in BOOLEAN :
         /\ twin => n >= LIMIT + 2
         /\ image_paths = Listing(n, twin)
    /\ \E n \in 0 .. MaxLabels : label_paths = Listing(n, FALSE)
    /\ batch_size \in 1 .. MaxBatchSize
    /\ shuffle \in {"identity", "reverse", "rotate"}
    /\ gpc = "start"
    /\ paths = <<>>
    /\ batch_i = 0
    /\ batches = <<>>
    /\ rpc = "start"
    /\ todo = <<>>
    /\ yielded = <<>>
    /\ outdir \in {{}, {StaleOutput}}
    /\ IdleFetch
    /\ IdlePixels

NextData ==
    \/ GenStart
    \/ GenYield
    \/ GenStop
    \/ SaveStart
    \/ SaveNext
    \/ SaveDone

SpecData == InitData /\ [][NextData]_vars

(***************************************************************************)
(* The dataset's claims.                                                   *)
(***************************************************************************)
RECURSIVE PairsOf(_)
\* The (image, label) pairs of a sequence of batches, in order.
PairsOf(bs) ==
    IF bs = <<>> THEN <<>>
    ELSE Zip(Head(bs).images, Head(bs).gt_images) \o PairsOf(Tail(bs))

BatchSizes == [k \in 1 .. Len(batches) |-> Len(batches[k].images)]

\* C4: with the shuffle the identity and at least 10 pairs listed, the
\* generator yields ceil(10 / batch_size) batches, all of batch_size pairs
\* but possibly the last, which is not empty ([4,4,2] for batch_size 4);
\* their concatenation is the first 10 pairs of the listing in order.
C4_BatchesPartitionFirstTen ==
    (/\ gpc = "done"
     /\ shuffle = "identity"
     /\ Len(image_paths) >= 10
     /\ Len(label_paths) >= 10)
        => /\ Len(batches) = (10 + batch_size - 1) \div batch_size
           /\ \A k \in 1 .. Len(batches) :
                /\ Len(batches[k].gt_images) = Len(batches[k].images)
                /\ k < Len(batches) => Len(batches[k].images) = batch_size
                /\ Len(batches[k].images) >= 1
                /\ Len(batches[k].images) <= batch_size
           /\ batch_size = 4 => BatchSizes = <<4, 4, 2>>
           /\ PairsOf(batches)
                = [i \in 1 .. 10 |-> <<image_paths[i], label_paths[i]>>]

\* batch_size 4 over a listing of 13 images and 12 labels: three batches.
C4_Witness ==
    /\ gpc = "done"
    /\ shuffle = "identity"
    /\ batch_size = 4
    /\ Len(image_paths) = 13
    /\ Len(label_paths) = 12
    /\ BatchSizes = <<4, 4, 2>>

\* C6 as stated: with two images in CameraRGB the run writes exactly 4
\* files, <basename> and raw_<basename> of each.
C6_TwoImagesFourFiles ==
    (rpc = "done" /\ Len(image_paths) = 2)
        => /\ Cardinality(outdir) = 4
           /\ outdir = UNION {{image_paths[i],
                               <<image_paths[i][1] + 1, image_paths[i][2]>>}
                              : i \in 1 .. 2}

\* C6 amended: with at least 12 images listed, the run output directory
\* holds <basename> and raw_<basename> of the images at offsets 10 and 11 of
\* the listing and nothing else: 4 files, unless one of the two basenames is
\* "raw_" + the other.
C6_SliceImagesFourFiles ==
    (rpc = "done" /\ Len(image_paths) >= 12)
        => LET a == image_paths[11]
               b == image_paths[12]
               rawa == <<a[1] + 1, a[2]>>
               rawb == <<b[1] + 1, b[2]>>
           IN  /\ outdir = {a, rawa, b, rawb}
               /\ (b # rawa /\ a # rawb) => Cardinality(outdir) = 4

\* A finished run over 13 images that left 4 files.
C6_Witness ==
    /\ rpc = "done"
    /\ Len(image_paths) = 13
    /\ Cardinality(outdir) = 4
    /\ Len(yielded) = 2

\* C8: over a listing of n images gen_test_output yields min(2, max(0, n-10))
\* triples, for the images at offsets 10 and 11 in that order; no image it
\* renders is among the first 10 of the listing, and every image of a
\* training batch is.
C8_TestSliceDisjointFromTraining ==
    LET n == Len(image_paths)
        firstTen == {image_paths[i] : i \in 1 .. Min(10, n)}
    IN  /\ rpc = "done"
            => /\ Len(yielded) = Min(2, Max(0, n - 10))
               /\ \A k \in 1 .. Len(yielded) : yielded[k] = image_paths[10 + k]
        /\ \A k \in 1 .. Len(yielded) : yielded[k] \notin firstTen
        /\ \A k \in 1 .. Len(batches) :
             \A j \in 1 .. Len(batches[k].images) :
                /\ batches[k].images[j] \in firstTen
                /\ \A m \in 1 .. Len(yielded) : yielded[m] # batches[k].images[j]

\* Both generators exhausted over 13 images, shuffled: two images rendered,
\* several batches yielded.
C8_Witness ==
    /\ rpc = "done"
    /\ gpc = "done"
    /\ Len(image_paths) = 13
    /\ Len(label_paths) = 13
    /\ shuffle = "reverse"
    /\ Len(yielded) = 2
    /\ Len(batches) = 4

(***************************************************************************)
(* Pixels: the label remapping of get_batches_fn (lines 87-91) and the     *)
(* raw mask of gen_test_output (lines 117-133).  An image is the sequence  *)
(* of its pixels.                                                          *)
(***************************************************************************)
\* The values the model draws for the channels of a label file and for a
\* class score.
ChannelValues == {0, 7, 10}
LabelValues == {0, 7, 10, 255}
ScoreLevels == {0, 1}

\* cv2.imread(gt_image_file)[:, :, -1]: the last channel of each pixel.
LastChannel(img) == [i \in 1 .. Len(img) |-> img[i][Len(img[i])]]

\* np.zeros_like(a).
ZerosLike(a) == [i \in 1 .. Len(a) |-> 0]

\* temp[a == id] = v.
MaskedAssign(temp, a, id, v) ==
    [i \in 1 .. Len(temp) |-> IF a[i] = id THEN v ELSE temp[i]]

\* Lines 88-91.
RemapSwapped(a) ==
    MaskedAssign(MaskedAssign(ZerosLike(a), a, 10, 1), a, 7, 2)
Remap(a) ==
    MaskedAssign(MaskedAssign(ZerosLike(a), a, 7, 1), a, 10, 2)

\* np.argmax over the classes of one pixel: the first index (from 0) of the
\* largest score.
Argmax(scores) ==
    CHOOSE c \in 0 .. Len(scores) - 1 :
        /\ \A d \in 0 .. Len(scores) - 1 : scores[d + 1] <= scores[c + 1]
        /\ \A d \in 0 .. c - 1 : scores[d + 1] < scores[c + 1]

\* (result == 1) and (result == 2), as the 0/1 a boolean is in np.dot.
RoadSeg(r) == IF r = 1 THEN 1 ELSE 0
VehSegNotBackground(r) == IF r >= 1 THEN 1 ELSE 0
VehSeg(r) == IF r = 2 THEN 1 ELSE 0

\* np.dot(seg, [[c1, c2, c3]]) at one pixel, and the sum of two pixels.
Dot(seg, colour) == [c \in 1 .. Len(colour) |-> seg * colour[c]]
Plus(x, y) == [c \in 1 .. Len(x) |-> x[c] + y[c]]

\* Lines 132-133 at one pixel of class r.
RawPixel(r) ==
    Plus(Plus(<<0, 0, 0>>, Dot(VehSeg(r), <<255, 0, 0>>)),
         Dot(RoadSeg(r), <<0, 255, 0>>))

PixelFrame == UNCHANGED <<fetchVars, dataVars>>

\* Line 87: the label file is read and its last channel taken.
ReadLabel ==
    /\ xpc = "label"
    /\ PixelFrame
    /\ gt_image' = LastChannel(gt_file)
    /\ xpc' = "read"
    /\ UNCHANGED <<gt_file, im_softmax, result, raw_im>>

\* Lines 88-91: the mask replaces the label channel.
RemapLabels ==
    /\ xpc = "read"
    /\ PixelFrame
    /\ gt_image' = Remap(gt_image)
    /\ xpc' = "remapped"
    /\ UNCHANGED <<gt_file, im_softmax, result, raw_im>>

\* Line 117: the arg-max class of each pixel.
TakeArgmax ==
    /\ xpc = "softmax"
    /\ PixelFrame
    /\ result' = [i \in 1 .. Len(im_softmax) |-> Argmax(im_softmax[i])]
    /\ xpc' = "argmax"
    /\ UNCHANGED <<gt_file, im_softmax, gt_image, raw_im>>

\* Lines 119, 124, 132-133: the raw mask.
RenderRaw ==
    /\ xpc = "argmax"
    /\ PixelFrame
    /\ raw_im' = [i \in 1 .. Len(result) |-> RawPixel(result[i])]
    /\ xpc' = "rendered"
    /\ UNCHANGED <<gt_file, im_softmax, gt_image, result>>

\* Either a label file has been read by cv2.imread, or the session has
\* returned the class scores of an image.
InitPixels ==
    /\ \/ /\ xpc = "label"
          /\ gt_file \in [1 .. NumPixels ->
                            [1 .. 3 -> ChannelValues] \cup
                            {<<b, g, r>> : b, g \in {0}, r \in LabelValues}]
          /\ im_softmax = <<>>
       \/ /\ xpc = "softmax"
          /\ gt_file = <<>>
          /\ im_softmax \in [1 .. NumPixels -> [1 .. NumClasses -> ScoreLevels]]
    /\ gt_image = <<>>
    /\ result = <<>>
    /\ raw_im = <<>>
    /\ IdleFetch
    /\ IdleData

NextPixels ==
    \/ ReadLabel
    \/ RemapLabels
    \/ TakeArgmax
    \/ RenderRaw

SpecPixels == InitPixels /\ [][NextPixels]_vars

\* C5: every pixel of the mask is 0, 1 or 2; it is 1 exactly where the label
\* (the last channel of the label file) is 7, 2 exactly where it is 10, and
\* 0 everywhere else.
C5_MaskIsRemappedLabel ==
    xpc = "remapped"
        => /\ Len(gt_image) = Len(gt_file)
           /\ \A i \in 1 .. Len(gt_file) :
                /\ gt_image[i] \in {0, 1, 2}
                /\ gt_image[i] = 1 <=> gt_file[i][3] = 7
                /\ gt_image[i] = 2 <=> gt_file[i][3] = 10
                /\ gt_image[i] = 0 <=> gt_file[i][3] \notin {7, 10}

\* A label file with a vehicle pixel whose other channels say "road", and a
\* pixel of another class, remapped.
C5_Witness ==
    /\ xpc = "remapped"
    /\ gt_file[1] = <<7, 7, 10>>
    /\ gt_file[2] = <<0, 0, 255>>
    /\ gt_image[1] = 2
    /\ gt_image[2] = 0

\* C7: a pixel of the raw mask is (255,0,0) where the arg-max class is 2,
\* (0,255,0) where it is 1 and (0,0,0) elsewhere; no other colour occurs.
C7_RawMaskColours ==
    xpc = "rendered"
        => /\ Len(raw_im) = Len(result)
           /\ \A i \in 1 .. Len(result) :
                /\ result[i] \in 0 .. NumClasses - 1
                /\ \A c \in 0 .. NumClasses - 1 : im_softmax[i][c + 1] <= im_softmax[i][result[i] + 1]
                /\ raw_im[i] = (IF result[i] = 2 THEN <<255, 0, 0>>
                                ELSE IF result[i] = 1 THEN <<0, 255, 0>>
                                ELSE <<0, 0, 0>>)

\* A rendered mask with a road pixel and a vehicle pixel.
C7_Witness ==
    /\ xpc = "rendered"
    /\ result[1] = 1
    /\ result[2] = 2
    /\ raw_im = << <<0, 255, 0>>, <<255, 0, 0>> >>

====
